---------------------------- MODULE Spec2Model ----------------------------
(***************************************************************************)
(* A model of joe-down/deep-q-learner: the training control loop           *)
(* (main.py train_run), the coordinating learner (agents/super_agent.py    *)
(* SuperAgent), the stand-alone learner (agents/agent.py Agent) and the    *)
(* environment driver (agents/runner.py Runner).                           *)
(*                                                                         *)
(* Three specifications share the module:                                  *)
(*   SpecTrainRun - train_run: validation, checkpoint selection,           *)
(*                  interruption and persistence;                          *)
(*   SpecLearners - either a SuperAgent (train, base_action, action) or    *)
(*                  the Agents (action, reward, train) under Runner.step;  *)
(*   SpecTarget   - the bootstrap targets of SuperAgent.train and          *)
(*                  Agent.train as functions of their inputs.              *)
(* Each leaves the other subsystems' variables at rest.                    *)
(***************************************************************************)
EXTENDS Integers, Sequences, FiniteSets, TLC

(***************************************************************************)
(* Bounds of the model.                                                    *)
(***************************************************************************)
\* iterations of the training loop the model follows before it only waits
\* for the interrupt
MaxIterations == 7
\* validation_interval of train_run (100 for cartpole), scaled down
ValidationInterval == 2
\* fully written transitions a replay buffer needs before it reports ready
ReadyAfter == 2

\* gradient updates of a learner the model follows
MaxUpdates == 3
\* train_agent_count of SuperAgent
TrainAgentCount == 2
\* target_network_update_time of SuperAgent
TargetNetworkUpdateTime == 2

\* super_agent.py 14, agent.py 19
ACTION_LENGTH == 1
\* an enumeration with a third discrete action
POSSIBLE_ACTIONS_THREE == <<0, 1, 2>>
\* super_agent.py 15, agent.py 20
POSSIBLE_ACTIONS == <<0, 1>>

\* observations, told apart by an identifier (the vectors themselves are the
\* environment's), the scores a network can give, the immediate rewards and
\* the discount factors, in tenths
Observations == {0, 1}
Scores == {0, 1}
Rewards == {0, 1}
Discounts == {1, 5, 9}

\* train_batch_size of SuperAgent
TrainBatchSize == 2
\* Runner.step calls per agent the model follows
MaxSteps == 5

\* the Agent instances
Agents == {"agent1", "agent2"}

\* agent.py 10 and main.py 165: the initial exploration probability, and
\* main.py 166: its configured floor, as fractions <<numerator, denominator>>
RANDOM_ACTION_PROBABILITY == <<1, 1>>
MINIMUM_RANDOM_ACTION_PROBABILITY == <<1, 10>>
\* agent.py 11: the decay rate, a fraction strictly between 0 and 1 (the
\* program's 1 - 1/2**17 takes about 300,000 decays to cross the floor; 1/2
\* crosses it within the steps the model follows)
RANDOM_ACTION_PROBABILITY_DECAY == <<1, 2>>

\* mean accumulated rewards a validation point can measure
ValidationScores == {8, 9, 10, 12}

\* the files torch.save writes on shutdown, in the order of main.py 101-103
SaveOrder == <<"q1", "q2", "action">>

VARIABLES
    \* ---- train_run (main.py) ----
    pc,                 \* position of train_run
    iteration,          \* the loop counter of itertools.count()
    survival_times,     \* the validation means recorded so far
    best_state_dicts,   \* the dict object train_run holds as best snapshot
    online_params,      \* the values held by the online networks' tensors
    collected,          \* environment steps collected by super_agent.step()
    saved,              \* the files written so far: <<name, contents>>
    closed,             \* number of super_agent.close() calls
    interrupted_at,     \* the position the KeyboardInterrupt arrived at
    snapshots,          \* history: validation points that replaced the snapshot
    best_values,        \* history: the tensor values at the last replacement
    \* ---- the learners ----
    component,          \* what is driven: "train_run", "super_agent",
                        \* "agent" or "target"
    \* ---- SuperAgent (agents/super_agent.py) ----
    neural_network,     \* parameters of the online network
    target_neural_network,  \* the target network: object identity, parameters
    target_neural_network_update_counter,
    sa_buffers,         \* per agent of the SuperAgent: fully written transitions
    sa_updates,         \* history: gradient updates performed
    sa_sampled,         \* history: agents the last train call sampled from
    sa_action,          \* the last result of base_action, or <<>>
    sa_assert_failed,   \* an assertion of base_action failed
    \* ---- the bootstrap target as a function ----
    tg_in,              \* the inputs drawn
    tg_out,             \* the targets computed from them
    \* ---- Agent (agents/agent.py) and its Runner (agents/runner.py) ----
    ag_training,        \* per agent: constructed with training = True
    ag_buffer,          \* per agent: the buffer's call counts, or "None"
    ag_probability,     \* per agent: the instance attribute
                        \* RANDOM_ACTION_PROBABILITY, or "class" while unset
    ag_network,         \* per agent: optimiser steps applied to its network
    ag_pc,              \* per agent: position of its Runner.step
    ag_observation,     \* per agent: the Runner's current observation
    ag_action,          \* per agent: the last result of action, or <<>>
    env_action,         \* per agent: the last action given to env.step
    ag_assert_failed,   \* an assertion of Agent.action failed
    ag_sampled_unready, \* history: random_observations ran on an unready buffer
    ag_actions,         \* history, per agent: action calls
    ag_decays,          \* history, per agent: decays applied
    ag_ready_rewards,   \* history, per agent: reward calls with a ready buffer
    ag_choice,          \* history, per agent: the branch of the last action
    ag_sampled_midwrite \* history: random_observations ran between a
                        \* push_observation and its push_reward

trVars == <<pc, iteration, survival_times, best_state_dicts, online_params,
            collected, saved, closed, interrupted_at, snapshots, best_values>>

saVars == <<neural_network, target_neural_network,
            target_neural_network_update_counter, sa_buffers, sa_updates,
            sa_sampled, sa_action, sa_assert_failed>>

tgVars == <<tg_in, tg_out>>

agVars == <<ag_training, ag_buffer, ag_probability, ag_network, ag_pc,
            ag_observation, ag_action, env_action, ag_assert_failed,
            ag_sampled_unready, ag_actions, ag_decays, ag_ready_rewards,
            ag_choice, ag_sampled_midwrite>>

learnerVars == <<component, saVars, tgVars, agVars>>

vars == <<trVars, learnerVars>>

(***************************************************************************)
(* Helpers.                                                                *)
(***************************************************************************)
RECURSIVE SeqMax(_)
SeqMax(s) ==
    IF Len(s) = 1 THEN s[1]
    ELSE LET m == SeqMax(Tail(s)) IN IF s[1] >= m THEN s[1] ELSE m

Front(s) == SubSeq(s, 1, Len(s) - 1)

(***************************************************************************)
(* The action space and the networks (super_agent.py 39-68, agent.py       *)
(* 37-54).                                                                 *)
(***************************************************************************)
\* super_agent.py 61-64, agent.py 37-40: with ACTION_LENGTH = 1 every
\* combination with replacement is one element of POSSIBLE_ACTIONS and has a
\* single permutation, so the rows are the elements in their order
action_space ==
    [i \in 1..Len(POSSIBLE_ACTIONS) |->
        [j \in 1..ACTION_LENGTH |-> POSSIBLE_ACTIONS[i]]]

ActionIndexes == 1..Len(action_space)

\* the parameters of a network, told apart by the score they give each
\* observation-action row
NetworkParams == [Observations \X ActionIndexes -> Scores]

\* network.forward on one observation-action row
Forward(params, observation, i) == params[<<observation, i>>]

\* network.forward on observation_actions: one score per row of the action
\* space (super_agent.py 94-96, 133-142)
RowScores(params, observation) ==
    [i \in ActionIndexes |-> Forward(params, observation, i)]

\* torch argmax: the index of the first maximal value
argmax(s) ==
    CHOOSE i \in 1..Len(s) :
        /\ \A j \in 1..Len(s) : s[j] <= s[i]
        /\ \A j \in 1..(i - 1) : s[j] < s[i]

RowMin(row) == CHOOSE x \in {row[j] : j \in 1..Len(row)} :
                   \A j \in 1..Len(row) : x <= row[j]
RowMax(row) == CHOOSE x \in {row[j] : j \in 1..Len(row)} :
                   \A j \in 1..Len(row) : x >= row[j]

\* super_agent.py 102-103, agent.py 83-84: the range assertions
RangeAssertionsHold(best_action) ==
    RowMin(best_action) >= -1 /\ RowMax(best_action) <= 1

\* a sampled transition, as far as the target reads it: the observation part
\* of next_observation_actions, immediate_rewards, terminations
Transitions ==
    [next_observation : Observations, reward : Rewards, terminated : {0, 1}]

(***************************************************************************)
(* The bootstrap targets, in tenths (a discount factor d stands for d/10). *)
(***************************************************************************)
\* the target of spec 4.3: the maximum of the target network's scores
MaxTargetScoreTarget(online, target, tr, discount_factor) ==
    10 * tr.reward + discount_factor * (1 - tr.terminated)
        * SeqMax(RowScores(target, tr.next_observation))

\* super_agent.py 131-151: the online network picks the best next action,
\* the target network scores it
SuperAgentTarget(online, target, tr, discount_factor) ==
    LET best_next_action_index == argmax(RowScores(online, tr.next_observation))
    IN  10 * tr.reward + discount_factor * (1 - tr.terminated)
            * Forward(target, tr.next_observation, best_next_action_index)

\* agent.py 15
DISCOUNT_FACTOR == 9

\* a target that leaves the termination flag out
AgentTargetUnmasked(params, tr) ==
    LET best_next_action_index == argmax(RowScores(params, tr.next_observation))
    IN  10 * tr.reward + DISCOUNT_FACTOR
            * Forward(params, tr.next_observation, best_next_action_index)

\* agent.py 102-113: the one network picks and scores the best next action
AgentTarget(params, tr) ==
    LET best_next_action_index == argmax(RowScores(params, tr.next_observation))
    IN  10 * tr.reward + DISCOUNT_FACTOR * (1 - tr.terminated)
            * Forward(params, tr.next_observation, best_next_action_index)

NoTargets == [computed |-> FALSE, super_agent |-> 0, agent |-> 0]

TargetAtRest ==
    /\ tg_in = "none"
    /\ tg_out = NoTargets

\* the inputs of one training step: both networks, one sampled transition,
\* the discount factor
InitTarget ==
    /\ tg_in \in [online : NetworkParams, target : NetworkParams,
                  transition : Transitions, discount_factor : Discounts]
    /\ tg_out = NoTargets

\* super_agent.py 150-151 and agent.py 112-113 on the inputs drawn
ComputeTargets ==
    /\ ~tg_out.computed
    /\ tg_out' = [computed |-> TRUE,
                  super_agent |-> SuperAgentTarget(tg_in.online, tg_in.target,
                                     tg_in.transition, tg_in.discount_factor),
                  agent |-> AgentTarget(tg_in.online, tg_in.transition)]
    /\ UNCHANGED tg_in
    /\ UNCHANGED <<trVars, component, saVars, agVars>>

(***************************************************************************)
(* SuperAgent (agents/super_agent.py).                                     *)
(***************************************************************************)
\* Agent.buffer_ready() of the agents a SuperAgent owns: true once the
\* agent's buffer holds a full batch of fully written transitions
buffer_ready(written) == written >= ReadyAfter

\* every agent, ready or not
AllAgents == DOMAIN sa_buffers

\* super_agent.py 113: the agents whose buffer reports ready
ReadyAgents == {a \in DOMAIN sa_buffers : buffer_ready(sa_buffers[a])}

\* super_agent.py 116-129: the agents the batch is drawn from, with
\* replacement, train_batch_size times: any non-empty set of candidates of
\* at most train_batch_size agents
BatchAgents(candidates) ==
    {S \in SUBSET candidates : S # {} /\ Cardinality(S) <= TrainBatchSize}

\* a counter that is not wrapped
NextCounterNoWrap(counter) == counter + 1

\* super_agent.py 158-159
NextCounter(counter) == (counter + 1) % TargetNetworkUpdateTime

\* copy.deepcopy(network): a new object holding the same parameter values
DeepCopy(params, previous) ==
    [object |-> previous.object + 1, params |-> params]

SuperAgentAtRest ==
    /\ neural_network = [x \in Observations \X ActionIndexes |-> 0]
    /\ target_neural_network = [object |-> 0, params |-> neural_network]
    /\ target_neural_network_update_counter = 0
    /\ sa_buffers = <<>>
    /\ sa_updates = 0
    /\ sa_sampled = {}
    /\ sa_action = <<>>
    /\ sa_assert_failed = FALSE

\* super_agent.py 18-68: the constructor, for no agents (not training) or
\* train_agent_count agents; the parameters are the loaded or the freshly
\* initialised ones
InitSuperAgent ==
    /\ neural_network \in NetworkParams
    /\ target_neural_network = [object |-> 0, params |-> neural_network]
    /\ target_neural_network_update_counter = 0
    /\ \E n \in {0, TrainAgentCount} : sa_buffers = [a \in 1..n |-> 0]
    /\ sa_updates = 0
    /\ sa_sampled = {}
    /\ sa_action = <<>>
    /\ sa_assert_failed = FALSE

\* an agent of the SuperAgent completes one more transition in its buffer
SuperAgentCollect ==
    /\ component = "super_agent"
    /\ \E a \in DOMAIN sa_buffers :
           /\ sa_buffers[a] < ReadyAfter
           /\ sa_buffers' = [sa_buffers EXCEPT ![a] = @ + 1]
    /\ UNCHANGED <<neural_network, target_neural_network,
                   target_neural_network_update_counter, sa_updates,
                   sa_sampled, sa_action, sa_assert_failed>>
    /\ UNCHANGED <<trVars, component, tgVars, agVars>>

\* super_agent.py 90-108: base_action, and action which returns its
\* best_action
SuperAgentAction ==
    /\ component = "super_agent"
    /\ \E observation \in Observations :
           LET best_expected_reward_action_index ==
                   argmax(RowScores(neural_network, observation))
               best_action == action_space[best_expected_reward_action_index]
           IN  /\ sa_action' = best_action
               /\ sa_assert_failed' =
                      (sa_assert_failed \/ ~RangeAssertionsHold(best_action))
    /\ UNCHANGED <<neural_network, target_neural_network,
                   target_neural_network_update_counter, sa_buffers,
                   sa_updates, sa_sampled>>
    /\ UNCHANGED <<trVars, component, tgVars, agVars>>

\* super_agent.py 110-162: train
SuperAgentTrain ==
    /\ component = "super_agent"
    /\ sa_updates < MaxUpdates
    /\ IF DOMAIN sa_buffers = {} \/ ReadyAgents = {}
       THEN \* 111-115: not training, or no agent is ready
            /\ sa_sampled' = {}
            /\ UNCHANGED <<neural_network, target_neural_network,
                           target_neural_network_update_counter, sa_updates>>
       ELSE \* 116-129: random_observations on every agent of the batch
            /\ sa_sampled' \in BatchAgents(ReadyAgents)
            \* 150-156: one gradient step on the online network
            /\ neural_network' \in NetworkParams
            /\ sa_updates' = sa_updates + 1
            \* 158-161: the counter, and the target network on a wrap
            /\ target_neural_network_update_counter' =
                   NextCounter(target_neural_network_update_counter)
            /\ target_neural_network' =
                   IF target_neural_network_update_counter' = 0
                   THEN DeepCopy(neural_network', target_neural_network)
                   ELSE target_neural_network
    /\ UNCHANGED <<sa_buffers, sa_action, sa_assert_failed>>
    /\ UNCHANGED <<trVars, component, tgVars, agVars>>

(***************************************************************************)
(* SuperAgent.state_dict: torch's Module.state_dict() builds a new dict    *)
(* whose values are the parameter tensors themselves (no copy is made), so *)
(* the dict is modelled as an object identity (the validation point that   *)
(* created it, 0 for the one of line 70) and a reference to the live       *)
(* tensors.                                                                *)
(***************************************************************************)
state_dicts(k) == [dict |-> k, tensors |-> "online"]

\* what reading a state dict yields: the current values of the tensors
Contents(sd) == IF sd.tensors = "online" THEN online_params ELSE sd.tensors

\* a selection test that demands a strictly greater mean
IsNewBestStrict(times) ==
    Len(times) < 2 \/ times[Len(times)] > SeqMax(Front(times))

(***************************************************************************)
(* main.py 93: the checkpoint selection test on the recorded means.        *)
(***************************************************************************)
IsNewBest(times) ==
    Len(times) < 2 \/ times[Len(times)] >= SeqMax(Front(times))

(***************************************************************************)
(* Agent (agents/agent.py), driven by Runner.step (agents/runner.py).      *)
(***************************************************************************)
RatMul(p, q) == <<p[1] * q[1], p[2] * q[2]>>
RatLess(p, q) == p[1] * q[2] < q[1] * p[2]
RatEq(p, q) == p[1] * q[2] = q[1] * p[2]

\* one attribute shared by every instance: each read gives the value the
\* latest decay of any instance has left
ExplorationProbabilityShared(a) ==
    LET written == {b \in Agents : ag_probability[b] # "class"}
    IN  IF written = {} THEN RANDOM_ACTION_PROBABILITY
        ELSE ag_probability[CHOOSE b \in written :
                 \A c \in written :
                     ~RatLess(ag_probability[c], ag_probability[b])]

\* self.RANDOM_ACTION_PROBABILITY: the instance attribute if the instance
\* has one, the class attribute otherwise
ExplorationProbability(a) ==
    IF ag_probability[a] = "class" THEN RANDOM_ACTION_PROBABILITY
    ELSE ag_probability[a]

\* the replay buffer: push_observation and push_reward count their calls
NewBuffer == [observations |-> 0, rewards |-> 0]
push_observation(buffer) == [buffer EXCEPT !.observations = @ + 1]
push_reward(buffer) == [buffer EXCEPT !.rewards = @ + 1]
FullyWritten(buffer) ==
    IF buffer.observations <= buffer.rewards THEN buffer.observations
    ELSE buffer.rewards
buffer_observations_ready(buffer) == FullyWritten(buffer) >= ReadyAfter

\* agent.py 72-76: the index a forward pass and argmax can give (the network
\* holds Dropout layers and is never put in evaluation mode, so the scores of
\* a forward pass are any scores)
GreedyIndexes == {argmax(s) : s \in [ActionIndexes -> Scores]}

\* agent.py 78: torch.randint(0, len(self.action_space), ())
RandomIndexes == 1..Len(action_space)

\* a condition that leaves out "not self.training": the draw alone decides
ActionBranchesByDrawAlone(a) ==
    (IF RatLess(ExplorationProbability(a), <<1, 1>>) THEN {"greedy"} ELSE {})
    \cup {"random"}

\* agent.py 71: not self.training or torch.rand(1) > p, with the draw in
\* [0, 1): the greedy branch needs a draw above p, the random one a draw of
\* at most p
ActionBranches(a) ==
    (IF ~ag_training[a] \/ RatLess(ExplorationProbability(a), <<1, 1>>)
     THEN {"greedy"} ELSE {})
    \cup (IF ag_training[a] THEN {"random"} ELSE {})

\* agent.py 72-79: the index each branch can give
BranchIndexes(branch) ==
    IF branch = "greedy" THEN GreedyIndexes ELSE RandomIndexes

\* a push_observation placed inside the random branch only
BufferAfterActionRandomOnly(a, branch) ==
    IF ag_training[a] /\ branch = "random"
    THEN push_observation(ag_buffer[a]) ELSE ag_buffer[a]

\* agent.py 85-86: if self.training: self.buffer.push_observation(...),
\* after either branch
BufferAfterAction(a, branch) ==
    IF ag_training[a] THEN push_observation(ag_buffer[a]) ELSE ag_buffer[a]

\* the action_formatter handed to the Runner: every component is clipped
\* into the legal bound before dispatch
action_formatter(action) ==
    [j \in 1..Len(action) |->
        IF action[j] < -1 THEN -1 ELSE IF action[j] > 1 THEN 1 ELSE action[j]]

\* a train that samples and updates whether or not the buffer is ready
AgentTrainUnguarded(a, buffer) ==
    IF ~ag_training[a]
    THEN UNCHANGED <<ag_network, ag_probability, ag_decays, ag_sampled_unready,
                     ag_sampled_midwrite>>
    ELSE /\ ag_sampled_unready' =
                (ag_sampled_unready \/ ~buffer_observations_ready(buffer))
         /\ ag_sampled_midwrite' =
                (ag_sampled_midwrite \/ buffer.observations # buffer.rewards)
         /\ ag_network' = [ag_network EXCEPT ![a] = @ + 1]
         /\ ag_probability' =
                [ag_probability EXCEPT ![a] =
                    RatMul(ExplorationProbability(a),
                           RANDOM_ACTION_PROBABILITY_DECAY)]
         /\ ag_decays' = [ag_decays EXCEPT ![a] = @ + 1]

\* agent.py 95-119: train, on the buffer as push_reward left it
AgentTrain(a, buffer) ==
    IF ~ag_training[a]
    THEN UNCHANGED <<ag_network, ag_probability, ag_decays, ag_sampled_unready,
                     ag_sampled_midwrite>>
    ELSE IF ~buffer_observations_ready(buffer)
    THEN UNCHANGED <<ag_network, ag_probability, ag_decays, ag_sampled_unready,
                     ag_sampled_midwrite>>
    ELSE \* 100-101: random_observations
         /\ ag_sampled_unready' =
                (ag_sampled_unready \/ ~buffer_observations_ready(buffer))
         /\ ag_sampled_midwrite' =
                (ag_sampled_midwrite \/ buffer.observations # buffer.rewards)
         \* 111-117: one gradient step
         /\ ag_network' = [ag_network EXCEPT ![a] = @ + 1]
         \* 118: the decay
         /\ ag_probability' =
                [ag_probability EXCEPT ![a] =
                    RatMul(ExplorationProbability(a),
                           RANDOM_ACTION_PROBABILITY_DECAY)]
         /\ ag_decays' = [ag_decays EXCEPT ![a] = @ + 1]

AgentsAtRest ==
    /\ ag_training = [a \in Agents |-> FALSE]
    /\ ag_buffer = [a \in Agents |-> "None"]
    /\ ag_probability = [a \in Agents |-> "class"]
    /\ ag_network = [a \in Agents |-> 0]
    /\ ag_pc = [a \in Agents |-> "idle"]
    /\ ag_observation = [a \in Agents |-> 0]
    /\ ag_action = [a \in Agents |-> <<>>]
    /\ env_action = [a \in Agents |-> <<>>]
    /\ ag_assert_failed = FALSE
    /\ ag_sampled_unready = FALSE
    /\ ag_actions = [a \in Agents |-> 0]
    /\ ag_decays = [a \in Agents |-> 0]
    /\ ag_ready_rewards = [a \in Agents |-> 0]
    /\ ag_choice = [a \in Agents |-> "none"]
    /\ ag_sampled_midwrite = FALSE

\* agent.py 25-61 and runner.py 12-23: each agent is constructed training or
\* not, each Runner resets its environment
InitAgents ==
    /\ ag_training \in [Agents -> BOOLEAN]
    /\ ag_buffer = [a \in Agents |-> IF ag_training[a] THEN NewBuffer ELSE "None"]
    /\ ag_probability = [a \in Agents |-> "class"]
    /\ ag_network = [a \in Agents |-> 0]
    /\ ag_pc = [a \in Agents |-> "idle"]
    /\ ag_observation \in [Agents -> Observations]
    /\ ag_action = [a \in Agents |-> <<>>]
    /\ env_action = [a \in Agents |-> <<>>]
    /\ ag_assert_failed = FALSE
    /\ ag_sampled_unready = FALSE
    /\ ag_actions = [a \in Agents |-> 0]
    /\ ag_decays = [a \in Agents |-> 0]
    /\ ag_ready_rewards = [a \in Agents |-> 0]
    /\ ag_choice = [a \in Agents |-> "none"]
    /\ ag_sampled_midwrite = FALSE

\* runner.py 29: agent.action (agent.py 67-87) on the current observation,
\* then the action_formatter
RunnerAct ==
    /\ component = "agent"
    /\ \E a \in Agents :
         /\ ag_pc[a] = "idle"
         /\ ag_actions[a] < MaxSteps
         /\ \E branch \in ActionBranches(a) :
              /\ ag_choice' = [ag_choice EXCEPT ![a] = branch]
              /\ \E i \in BranchIndexes(branch) :
                   LET best_action == action_space[i]
                   IN  /\ ag_action' = [ag_action EXCEPT ![a] = best_action]
                       /\ ag_assert_failed' =
                              (ag_assert_failed
                                   \/ ~RangeAssertionsHold(best_action))
                       /\ env_action' =
                              [env_action EXCEPT
                                   ![a] = action_formatter(best_action)]
              /\ ag_buffer' =
                     [ag_buffer EXCEPT ![a] = BufferAfterAction(a, branch)]
         /\ ag_actions' = [ag_actions EXCEPT ![a] = @ + 1]
         /\ ag_pc' = [ag_pc EXCEPT ![a] = "acted"]
    /\ UNCHANGED <<ag_training, ag_probability, ag_network, ag_observation,
                   ag_sampled_unready, ag_decays, ag_ready_rewards,
                   ag_sampled_midwrite>>
    /\ UNCHANGED <<trVars, component, saVars, tgVars>>

\* runner.py 30-36: env.step, agent.reward (agent.py 89-93) with its train,
\* and the reset of a finished episode
RunnerReward ==
    /\ component = "agent"
    /\ \E a \in Agents :
         /\ ag_pc[a] = "acted"
         /\ \E reward \in Rewards, dead \in BOOLEAN :
              \* the next observation, of env.step or of env.reset
              ag_observation' \in
                  {[ag_observation EXCEPT ![a] = o] : o \in Observations}
         /\ IF ag_training[a]
            THEN /\ ag_buffer' = [ag_buffer EXCEPT ![a] = push_reward(@)]
                 /\ ag_ready_rewards' =
                        [ag_ready_rewards EXCEPT ![a] =
                            IF buffer_observations_ready(ag_buffer'[a])
                            THEN @ + 1 ELSE @]
                 /\ AgentTrain(a, ag_buffer'[a])
            ELSE UNCHANGED <<ag_buffer, ag_ready_rewards, ag_network,
                             ag_probability, ag_decays, ag_sampled_unready,
                             ag_sampled_midwrite>>
         /\ ag_pc' = [ag_pc EXCEPT ![a] = "idle"]
    /\ UNCHANGED <<ag_training, ag_action, env_action, ag_assert_failed,
                   ag_actions, ag_choice>>
    /\ UNCHANGED <<trVars, component, saVars, tgVars>>

(***************************************************************************)
(* The learners: either the SuperAgent or the Agents are driven.           *)
(***************************************************************************)
LearnersAtRest == SuperAgentAtRest /\ TargetAtRest /\ AgentsAtRest

TrainRunAtRest ==
    /\ pc = "loop_head"
    /\ iteration = 0
    /\ survival_times = <<>>
    /\ online_params = 0
    /\ best_state_dicts = [dict |-> 0, tensors |-> "online"]
    /\ collected = 0
    /\ saved = <<>>
    /\ closed = 0
    /\ interrupted_at = "none"
    /\ snapshots = {}
    /\ best_values = 0

InitLearners ==
    /\ TrainRunAtRest
    /\ TargetAtRest
    /\ \/ component = "super_agent" /\ InitSuperAgent /\ AgentsAtRest
       \/ component = "agent" /\ InitAgents /\ SuperAgentAtRest

NextLearners ==
    \/ SuperAgentCollect
    \/ SuperAgentAction
    \/ SuperAgentTrain
    \/ RunnerAct
    \/ RunnerReward

SpecLearners == InitLearners /\ [][NextLearners]_vars

InitTargetInputs ==
    /\ TrainRunAtRest
    /\ component = "target"
    /\ SuperAgentAtRest
    /\ AgentsAtRest
    /\ InitTarget

SpecTarget == InitTargetInputs /\ [][ComputeTargets]_vars

(***************************************************************************)
(* train_run.                                                              *)
(***************************************************************************)
LoopPcs == {"loop_head", "validate", "select", "step", "train"}

InitTrainRun ==
    /\ pc = "loop_head"
    /\ iteration = 0
    /\ survival_times = <<>>
    /\ online_params = 0
    /\ best_state_dicts = state_dicts(0)
    /\ collected = 0
    /\ saved = <<>>
    /\ closed = 0
    /\ interrupted_at = "none"
    /\ snapshots = {}
    /\ best_values = 0
    /\ component = "train_run"
    /\ LearnersAtRest

\* main.py 82-83: the next iteration starts; validation every
\* validation_interval iterations
LoopHead ==
    /\ pc = "loop_head"
    /\ iteration < MaxIterations
    /\ pc' = IF iteration % ValidationInterval = 0 THEN "validate" ELSE "step"
    /\ UNCHANGED learnerVars
    /\ UNCHANGED <<iteration, survival_times, best_state_dicts, online_params,
                   collected, saved, closed, interrupted_at, snapshots,
                   best_values>>

\* main.py 84-92: the validation rollouts; their mean is recorded
Validate ==
    /\ pc = "validate"
    /\ \E score \in ValidationScores :
           survival_times' = Append(survival_times, score)
    /\ pc' = "select"
    /\ UNCHANGED learnerVars
    /\ UNCHANGED <<iteration, best_state_dicts, online_params, collected,
                   saved, closed, interrupted_at, snapshots, best_values>>

\* main.py 93-94: the best snapshot is replaced or kept
Select ==
    /\ pc = "select"
    /\ IF IsNewBest(survival_times)
       THEN /\ best_state_dicts' = state_dicts(Len(survival_times))
            /\ snapshots' = snapshots \cup {Len(survival_times)}
            /\ best_values' = online_params
       ELSE UNCHANGED <<best_state_dicts, snapshots, best_values>>
    /\ pc' = "step"
    /\ UNCHANGED learnerVars
    /\ UNCHANGED <<iteration, survival_times, online_params, collected,
                   saved, closed, interrupted_at>>

\* main.py 95: super_agent.step() advances every runner by one step; the
\* transitions go to the replay buffers, no parameter is touched
Step ==
    /\ pc = "step"
    /\ collected' = IF collected < ReadyAfter THEN collected + 1 ELSE collected
    /\ pc' = "train"
    /\ UNCHANGED learnerVars
    /\ UNCHANGED <<iteration, survival_times, best_state_dicts, online_params,
                   saved, closed, interrupted_at, snapshots, best_values>>

\* super_agent.py 152-156: optimiser.step() writes the new values into the
\* online network's tensors in place; every update yields new values
OptimiserStep(params) == params + 1

\* main.py 96-98: super_agent.train(), one gradient update once a buffer is
\* ready (super_agent.py 113-115), then the losses are recorded and the
\* loop counter advances
Train ==
    /\ pc = "train"
    /\ online_params' = IF collected >= ReadyAfter
                        THEN OptimiserStep(online_params)
                        ELSE online_params
    /\ iteration' = iteration + 1
    /\ pc' = "loop_head"
    /\ UNCHANGED learnerVars
    /\ UNCHANGED <<survival_times, best_state_dicts, collected, saved, closed,
                   interrupted_at, snapshots, best_values>>

\* main.py 99: a KeyboardInterrupt raised anywhere inside the try block
Interrupt ==
    /\ pc \in LoopPcs
    /\ interrupted_at' = pc
    /\ pc' = "close"
    /\ UNCHANGED learnerVars
    /\ UNCHANGED <<iteration, survival_times, best_state_dicts, online_params,
                   collected, saved, closed, snapshots, best_values>>

\* main.py 100: super_agent.close()
Close ==
    /\ pc = "close"
    /\ closed' = closed + 1
    /\ pc' = "save"
    /\ UNCHANGED learnerVars
    /\ UNCHANGED <<iteration, survival_times, best_state_dicts, online_params,
                   collected, saved, interrupted_at, snapshots, best_values>>

\* a shutdown path that returns after the first file
SaveFirstOnly ==
    /\ pc = "save"
    /\ saved' = Append(saved, <<SaveOrder[1], Contents(best_state_dicts)>>)
    /\ pc' = "returned"
    /\ UNCHANGED learnerVars
    /\ UNCHANGED <<iteration, survival_times, best_state_dicts, online_params,
                   collected, closed, interrupted_at, snapshots, best_values>>

\* main.py 101-103: torch.save of the three state dicts, one file per step
Save ==
    /\ pc = "save"
    /\ Len(saved) < Len(SaveOrder)
    /\ saved' = Append(saved, <<SaveOrder[Len(saved) + 1],
                                Contents(best_state_dicts)>>)
    /\ pc' = IF Len(saved') = Len(SaveOrder) THEN "returned" ELSE "save"
    /\ UNCHANGED learnerVars
    /\ UNCHANGED <<iteration, survival_times, best_state_dicts, online_params,
                   collected, closed, interrupted_at, snapshots, best_values>>

NextTrainRun ==
    \/ LoopHead
    \/ Validate
    \/ Select
    \/ Step
    \/ Train
    \/ Interrupt
    \/ Close
    \/ Save

SpecTrainRun == InitTrainRun /\ [][NextTrainRun]_vars

(***************************************************************************)
(* Checkpoint selection, snapshot contents and shutdown (train_run).       *)
(***************************************************************************)
\* the validation points whose selection test has been executed
Decided ==
    IF pc = "select" \/ interrupted_at = "select"
    THEN Len(survival_times) - 1
    ELSE Len(survival_times)

SavedNames == [i \in 1..Len(saved) |-> saved[i][1]]

\* C1: at every validation point the best snapshot is replaced if and only
\* if its mean is the first one recorded or is greater than or equal to the
\* maximum of all earlier means; the snapshot held is the one of the last
\* such point; for the means 10, 8, 12, 9 the snapshot is replaced exactly
\* at the first and the third point.
C1_SnapshotIffFirstOrMax ==
    /\ snapshots \subseteq 1..Decided
    /\ \A i \in 1..Decided :
           (i \in snapshots) <=>
               (i = 1 \/ survival_times[i] >= SeqMax(SubSeq(survival_times, 1, i - 1)))
    /\ best_state_dicts.dict =
           IF snapshots = {} THEN 0
           ELSE CHOOSE i \in snapshots : \A j \in snapshots : j <= i
    /\ (Decided >= 4 /\ SubSeq(survival_times, 1, 4) = <<10, 8, 12, 9>>)
           => snapshots \cap (1..4) = {1, 3}

C1_Witness ==
    /\ pc = "step"
    /\ survival_times = <<10, 8, 12, 9>>
    /\ snapshots = {1, 3}
    /\ best_state_dicts.dict = 3

\* C2: the parameters written on shutdown are the values the online
\* networks had at the most recent replacement of the best snapshot.
C2_SavedAreBestValues ==
    \A i \in 1..Len(saved) : saved[i][2] = best_values

\* C3: an interrupt arriving anywhere in the loop ends the loop (no position
\* of the loop is entered again), runs close once and writes the three
\* snapshot files once each, in order, before train_run returns; nothing is
\* closed or written while the loop runs uninterrupted.
C3_PersistOnceOnInterrupt ==
    /\ (interrupted_at = "none") <=> (pc \in LoopPcs)
    /\ pc \in LoopPcs => (saved = <<>> /\ closed = 0)
    /\ pc = "close" => (saved = <<>> /\ closed = 0)
    /\ pc = "save" => (closed = 1 /\ Len(saved) < Len(SaveOrder))
    /\ SavedNames = SubSeq(SaveOrder, 1, Len(saved))
    /\ pc = "returned" => (closed = 1 /\ SavedNames = SaveOrder)

C3_Witness ==
    /\ pc = "returned"
    /\ interrupted_at = "train"
    /\ iteration > 0
    /\ SavedNames = SaveOrder

(***************************************************************************)
(* The bootstrap target (SuperAgent.train, Agent.train).                   *)
(***************************************************************************)
\* C4: the bootstrap target of SuperAgent.train equals reward +
\* discount_factor * (1 - terminated) * M, M being the maximum over every
\* action of the target network's score of (next_observation, action).
C4_TargetUsesMaxTargetScore ==
    tg_out.computed =>
        tg_out.super_agent =
            10 * tg_in.transition.reward
                + tg_in.discount_factor * (1 - tg_in.transition.terminated)
                    * SeqMax(RowScores(tg_in.target,
                                       tg_in.transition.next_observation))

\* C4, as amended: the bootstrap target of SuperAgent.train equals reward +
\* discount_factor * (1 - terminated) * the target network's score of
\* (next_observation, a), a being the first action to which the online
\* network gives its maximal score for next_observation.
C4_TargetScoresOnlineArgmax ==
    tg_out.computed =>
        LET n == tg_in.transition.next_observation
        IN  \E a \in ActionIndexes :
                /\ \A b \in ActionIndexes :
                       Forward(tg_in.online, n, b) <= Forward(tg_in.online, n, a)
                /\ \A b \in ActionIndexes :
                       b < a => Forward(tg_in.online, n, b) < Forward(tg_in.online, n, a)
                /\ tg_out.super_agent =
                       10 * tg_in.transition.reward
                           + tg_in.discount_factor
                               * (1 - tg_in.transition.terminated)
                               * Forward(tg_in.target, n, a)

\* a transition whose online-best next action is not the target network's
\* best one, so that the two readings of the target differ
C4_Witness ==
    /\ tg_out.computed
    /\ tg_in.transition.terminated = 0
    /\ tg_out.super_agent <
           10 * tg_in.transition.reward
               + tg_in.discount_factor
                   * SeqMax(RowScores(tg_in.target,
                                      tg_in.transition.next_observation))

\* C9: for a sampled transition with terminated = 1 the target of the
\* training step, of SuperAgent.train and of Agent.train, equals the
\* immediate reward, whatever the discount factor and the scores.
C9_TerminalTargetIsReward ==
    (tg_out.computed /\ tg_in.transition.terminated = 1) =>
        /\ tg_out.super_agent = 10 * tg_in.transition.reward
        /\ tg_out.agent = 10 * tg_in.transition.reward

C9_Witness ==
    /\ tg_out.computed
    /\ tg_in.transition.terminated = 1
    /\ tg_in.transition.reward = 1
    /\ tg_in.discount_factor = 9
    /\ \A i \in ActionIndexes :
           /\ Forward(tg_in.online, tg_in.transition.next_observation, i) = 1
           /\ Forward(tg_in.target, tg_in.transition.next_observation, i) = 1
    /\ tg_out.super_agent = 10
    /\ tg_out.agent = 10

(***************************************************************************)
(* SuperAgent.train: the target network and the readiness of the buffers.  *)
(***************************************************************************)
\* C5: a train call that performs a gradient update advances the counter by
\* one modulo target_network_update_time, and replaces the target network
\* by a copy of the updated online network exactly when the counter wraps
\* to 0, that is on every target_network_update_time-th update; every other
\* step leaves the target network and the counter unchanged; the counter
\* stays within 0..target_network_update_time-1.
C5_TargetSyncOnWrap ==
    [][ /\ neural_network' # neural_network => sa_updates' = sa_updates + 1
        /\ target_neural_network_update_counter'
               \in 0..(TargetNetworkUpdateTime - 1)
        /\ IF sa_updates' = sa_updates + 1
           THEN /\ target_neural_network_update_counter' =
                       (target_neural_network_update_counter + 1)
                           % TargetNetworkUpdateTime
                /\ target_neural_network_update_counter' =
                       sa_updates' % TargetNetworkUpdateTime
                /\ IF sa_updates' % TargetNetworkUpdateTime = 0
                   THEN /\ target_neural_network'.params = neural_network'
                        /\ target_neural_network'.object =
                               target_neural_network.object + 1
                   ELSE target_neural_network' = target_neural_network
           ELSE /\ target_neural_network' = target_neural_network
                /\ target_neural_network_update_counter' =
                       target_neural_network_update_counter
      ]_vars

\* after a wrap, a further update has moved the online network away from
\* the target network, which kept the copy
C5_Witness ==
    /\ target_neural_network.object >= 1
    /\ target_neural_network_update_counter = 1
    /\ sa_updates = TargetNetworkUpdateTime + 1
    /\ target_neural_network.params # neural_network

\* C6: random_observations is called only on buffers that report ready, by
\* SuperAgent.train and by Agent.train; while no buffer is ready no train
\* call has changed a parameter, the target-sync counter or the target.
C6_SampleOnlyReadyBuffers ==
    /\ \A a \in sa_sampled : sa_buffers[a] >= ReadyAfter
    /\ (\A a \in DOMAIN sa_buffers : sa_buffers[a] < ReadyAfter) =>
           /\ sa_updates = 0
           /\ target_neural_network_update_counter = 0
           /\ target_neural_network = [object |-> 0, params |-> neural_network]
    /\ ~ag_sampled_unready
    /\ \A a \in Agents :
           (ag_training[a] /\ ~buffer_observations_ready(ag_buffer[a])) =>
               /\ ag_network[a] = 0
               /\ ag_decays[a] = 0
               /\ ag_probability[a] = "class"

\* a train call sampled from a ready buffer while another one was not ready
C6_Witness ==
    /\ component = "super_agent"
    /\ sa_sampled # {}
    /\ sa_updates > 0
    /\ \E a \in DOMAIN sa_buffers : sa_buffers[a] < ReadyAfter

(***************************************************************************)
(* The exploration probability of an Agent.                                *)
(***************************************************************************)
RECURSIVE RatPow(_, _)
RatPow(r, n) == IF n = 0 THEN <<1, 1>> ELSE RatMul(r, RatPow(r, n - 1))

\* max(p0 * r^n, f)
DecayedWithFloor(n) ==
    LET decayed == RatMul(RANDOM_ACTION_PROBABILITY,
                          RatPow(RANDOM_ACTION_PROBABILITY_DECAY, n))
    IN  IF RatLess(decayed, MINIMUM_RANDOM_ACTION_PROBABILITY)
        THEN MINIMUM_RANDOM_ACTION_PROBABILITY
        ELSE decayed

\* C7: after n decays the exploration probability of a learner equals
\* max(p0 * r^n, f): it never drops below the configured floor f.
C7_ProbabilityIsDecayWithFloor ==
    \A a \in Agents :
        RatEq(ExplorationProbability(a), DecayedWithFloor(ag_decays[a]))

InLegalBound(action) ==
    \A j \in 1..Len(action) : action[j] >= -1 /\ action[j] <= 1

IsActionSpaceRow(action) ==
    /\ Len(action) = ACTION_LENGTH
    /\ \A j \in 1..Len(action) :
           \E i \in 1..Len(POSSIBLE_ACTIONS) : action[j] = POSSIBLE_ACTIONS[i]

\* C10: every action returned by Agent.action and by SuperAgent.base_action
\* / action is a row of the action space built from POSSIBLE_ACTIONS with
\* every component in [-1, 1]; the range assertions never fail; the action
\* Runner.step gives to env.step is in [-1, 1].
C10_ActionsInLegalBound ==
    /\ ~sa_assert_failed
    /\ ~ag_assert_failed
    /\ sa_action # <<>> => (IsActionSpaceRow(sa_action) /\ InLegalBound(sa_action))
    /\ \A a \in Agents :
           /\ ag_action[a] # <<>> =>
                  (IsActionSpaceRow(ag_action[a]) /\ InLegalBound(ag_action[a]))
           /\ env_action[a] # <<>> => InLegalBound(env_action[a])

\* a training learner whose probability has decayed below 1, so that both
\* branches of Agent.action are open, returned the last row
C10_Witness ==
    \E a \in Agents :
        /\ ag_training[a]
        /\ ag_decays[a] > 0
        /\ ag_pc[a] = "acted"
        /\ ag_action[a] = action_space[Len(action_space)]
        /\ env_action[a] = ag_action[a]

BuffersInPhase ==
    \A a \in Agents :
        ag_training[a] =>
            /\ ag_buffer[a].observations = ag_actions[a]
            /\ ag_pc[a] = "idle" =>
                   ag_buffer[a].rewards = ag_buffer[a].observations
            /\ ag_pc[a] = "acted" =>
                   ag_buffer[a].rewards + 1 = ag_buffer[a].observations

\* a step that pushes an observation pushes exactly one, on a buffer with no
\* pending observation, and pushes no reward and updates nothing; a step
\* that pushes a reward pushes exactly one, on a buffer with one pending
\* observation; the network is updated only in a step that pushes a reward
PushStepsInOrder ==
    \A a \in Agents :
        ag_training[a] =>
            /\ ag_buffer'[a].observations # ag_buffer[a].observations =>
                   /\ ag_buffer'[a].observations = ag_buffer[a].observations + 1
                   /\ ag_buffer'[a].rewards = ag_buffer[a].rewards
                   /\ ag_buffer[a].rewards = ag_buffer[a].observations
                   /\ ag_network'[a] = ag_network[a]
            /\ ag_buffer'[a].rewards # ag_buffer[a].rewards =>
                   /\ ag_buffer'[a].rewards = ag_buffer[a].rewards + 1
                   /\ ag_buffer'[a].observations = ag_buffer[a].observations
                   /\ ag_buffer'[a].rewards = ag_buffer[a].observations
            /\ ag_network'[a] # ag_network[a] =>
                   ag_buffer'[a].rewards = ag_buffer[a].rewards + 1

\* C12: for a training agent driven by Runner.step, push_observation and
\* push_reward strictly alternate, starting with push_observation: every
\* step performs exactly one push_observation (in action) and then exactly
\* one push_reward (in reward) before the next push_observation, whether or
\* not the episode ended, and sampling for training runs only after the
\* push_reward of the step, never while an observation is pending.
C12_TwoPhaseWrites ==
    /\ [](BuffersInPhase /\ ~ag_sampled_midwrite)
    /\ [][PushStepsInOrder]_vars

\* a training agent went through three whole steps, the last of them with a
\* greedy action, sampled in at least one of them, and is inside the fourth
C12_Witness ==
    \E a \in Agents :
        /\ ag_training[a]
        /\ ag_pc[a] = "acted"
        /\ ag_choice[a] = "greedy"
        /\ ag_buffer[a].rewards >= 3
        /\ ag_network[a] > 0

(***************************************************************************)
(* The exploration probability of each Agent instance.                     *)
(***************************************************************************)
\* the probability an agent reads is the class value decayed once for each
\* of its own decays
OwnDecaysOnly ==
    \A a \in Agents :
        RatEq(ExplorationProbability(a),
              RatMul(RANDOM_ACTION_PROBABILITY,
                     RatPow(RANDOM_ACTION_PROBABILITY_DECAY, ag_decays[a])))

\* a step in which one agent decays leaves what every other agent reads as it
\* was
DecayLeavesOthers ==
    \A a, b \in Agents :
        (a # b /\ ag_decays'[a] # ag_decays[a]) =>
            ExplorationProbability(b)' = ExplorationProbability(b)

\* C13: the exploration probabilities of Agent instances are independent
\* per-instance state: after any sequence of train steps the probability an
\* Agent reads in action is the one its own decays have left, and a decay
\* applied by one Agent leaves the probability read by every other Agent
\* unchanged.
C13_ProbabilityPerInstance ==
    /\ []OwnDecaysOnly
    /\ [][DecayLeavesOthers]_vars

\* two training agents, one decayed twice and one decayed once before it
\* and not since, that read different probabilities
C13_Witness ==
    \E a, b \in Agents :
        /\ ag_training[a] /\ ag_training[b]
        /\ ag_decays[a] = 2
        /\ ag_decays[b] = 1
        /\ ag_pc[b] = "acted"
        /\ RatLess(ExplorationProbability(a), ExplorationProbability(b))
        /\ RatLess(ExplorationProbability(b), RANDOM_ACTION_PROBABILITY)

=============================================================================
